---- MODULE Spec2Model ----
(***************************************************************************)
(* State-machine model of the sshx server's session core                   *)
(* (crates/sshx-server/src/session.rs) and of the browser gateway          *)
(* (crates/sshx-server/src/web.rs, handle_socket).                         *)
(*                                                                         *)
(* Strings are sequences of UTF-8 bytes, so that str::get(start..) can     *)
(* fail on a byte index inside a character.  Option values are sequences   *)
(* of length 0 (None) or 1 (Some).  A DashMap guard is modelled per shell  *)
(* id: the real guard locks a whole shard, which only removes              *)
(* interleavings.                                                          *)
(***************************************************************************)
EXTENDS Integers, Sequences, FiniteSets, TLC

VARIABLES
    shells,     \* Session.shells: id -> [seqnum, data, closed]
    guard,      \* who holds the map guard of each id, or "none"
    source,     \* the value of the watch channel Session.source
    shutdown,   \* Session.shutdown has fired
    now,        \* the clock, in milliseconds since Session.created
    updated,    \* Session.updated
    task,       \* where each caller of the session is in its call
    ret,        \* the last call each caller finished and its result
    stream,     \* the generators made by subscribe_chunks
    yielded,    \* the batches each generator has yielded, in order
    counter,    \* Session.counter, a u32 as two 16-bit halves
    issued,     \* the values next_id has returned, in call order
    updates,    \* the channel behind update_tx / update_rx
    unseen,     \* the gateways whose shells_stream has a value to yield
    gw,         \* each handle_socket task
    out,        \* the frames each gateway has sent to its client
    chan,       \* each gateway's chunks_tx / chunks_rx channel
    closed_ret, \* the ids for which a close_shell call has returned Ok
    replay,     \* a schedule of add_data calls and its two runs (ReplaySpec)
    drained     \* the messages the agent transport has taken, in order

gwRest == <<counter, issued, updates, gw, out, chan, replay, drained>>
gwVars == <<gwRest, unseen, closed_ret>>

vars == <<shells, guard, source, shutdown, now, updated, task, ret, stream, yielded,
          gwVars>>

(***************************************************************************)
(* Bounds of the model.                                                    *)
(***************************************************************************)
MaxShells == 3
MaxBytes == 3
MaxChars == 2
MaxTime == 1
MaxStart == 1
MaxSched == 3
MaxFrames == 2
MaxDrain == 1

\* async_channel::bounded(256)
UpdateCap == 256
\* counter: AtomicU32, kept as two 16-bit halves
TwoTo16 == 65536

ShellIds == 1..MaxShells
Tasks == {"t1", "t2"}
Streams == {"s1", "s2"}
Gateways == {"g1", "g2"}
\* the connection of the specifications that have a single browser
Browser == {"g1"}

(***************************************************************************)
(* UTF-8 strings: 'a' is one byte, U+00E9 is the two bytes 195 169.        *)
(***************************************************************************)
Chars == {<<97>>, <<195, 169>>}

RECURSIVE StrsOf(_)
StrsOf(k) ==
    IF k = 0 THEN {<<>>}
    ELSE LET S == StrsOf(k - 1) IN S \cup {s \o c : s \in S, c \in Chars}

Strs == StrsOf(MaxChars)

\* (b as i8) >= -0x40 is false exactly for the continuation bytes 128..191
IsContinuation(b) == b >= 128 /\ b < 192

is_char_boundary(s, index) ==
    IF index = 0 THEN TRUE
    ELSE IF index >= Len(s) THEN index = Len(s)
    ELSE ~IsContinuation(s[index + 1])

\* data.get(start..): Some(suffix) on a character boundary, None otherwise
str_get_from(s, start) ==
    IF is_char_boundary(s, start) THEN <<SubSeq(s, start + 1, Len(s))>> ELSE <<>>

(***************************************************************************)
(* Window sizes.                                                           *)
(***************************************************************************)
DefaultWinsize == [x |-> 0, y |-> 0, rows |-> 24, cols |-> 80]
OtherWinsize == [x |-> 5, y |-> 5, rows |-> 10, cols |-> 10]
WinsizeArgs == {<<>>, <<OtherWinsize>>}

(***************************************************************************)
(* Shell records (struct State) and the pure parts of the operations.      *)
(***************************************************************************)
DefaultState == [seqnum |-> 0, data |-> <<>>, closed |-> FALSE]

\* a faulty variant of IsOpen: a closed shell passes
IsPresent(id) == id \in DOMAIN shells

IsOpen(id) == id \in DOMAIN shells /\ ~shells[id].closed

Accepts(shell, data, seq) == seq <= shell.seqnum /\ seq + Len(data) > shell.seqnum

\* a faulty variant of add_data: seqnum is not advanced
add_dataNoAdvance(shell, data, seq, ts) ==
    IF Accepts(shell, data, seq)
    THEN LET segment == str_get_from(data, shell.seqnum - seq) IN
         IF segment = <<>>
         THEN [ret |-> "Err", shell |-> shell, notify |-> FALSE]
         ELSE [ret |-> "Ok",
               shell |-> [shell EXCEPT !.data = Append(@, <<ts, segment[1]>>)],
               notify |-> TRUE]
    ELSE [ret |-> "Ok", shell |-> shell, notify |-> FALSE]

\* a faulty variant of add_data: seqnum advances by the whole of data
add_dataWholeLen(shell, data, seq, ts) ==
    IF Accepts(shell, data, seq)
    THEN LET segment == str_get_from(data, shell.seqnum - seq) IN
         IF segment = <<>>
         THEN [ret |-> "Err", shell |-> shell, notify |-> FALSE]
         ELSE [ret |-> "Ok",
               shell |-> [shell EXCEPT !.data = Append(@, <<ts, segment[1]>>),
                                       !.seqnum = @ + Len(data)],
               notify |-> TRUE]
    ELSE [ret |-> "Ok", shell |-> shell, notify |-> FALSE]

\* the body of add_data on the shell it has locked: the result, the new
\* record, and whether notify_waiters is called
add_data(shell, data, seq, ts) ==
    IF Accepts(shell, data, seq)
    THEN LET segment == str_get_from(data, shell.seqnum - seq) IN
         IF segment = <<>>
         THEN [ret |-> "Err", shell |-> shell, notify |-> FALSE]
         ELSE [ret |-> "Ok",
               shell |-> [shell EXCEPT !.data = Append(@, <<ts, segment[1]>>),
                                       !.seqnum = @ + Len(segment[1])],
               notify |-> TRUE]
    ELSE [ret |-> "Ok", shell |-> shell, notify |-> FALSE]

\* source.iter().position(|&(sid, _)| sid == id), 0 for None
Position(src, id) ==
    IF \E i \in 1..Len(src) : src[i][1] = id
    THEN CHOOSE i \in 1..Len(src) :
             src[i][1] = id /\ \A j \in 1..(i - 1) : src[j][1] # id
    ELSE 0

RemoveAt(src, idx) == SubSeq(src, 1, idx - 1) \o SubSeq(src, idx + 1, Len(src))

\* a faulty variant of move_modify: the entry is put first, not last
MoveToFront(src, id, winsize) ==
    LET idx == Position(src, id) IN
    IF idx = 0 THEN src
    ELSE <<<<id, IF winsize = <<>> THEN src[idx][2] ELSE winsize[1]>>>>
         \o RemoveAt(src, idx)

\* the closure move_shell passes to send_modify
move_modify(src, id, winsize) ==
    LET idx == Position(src, id) IN
    IF idx = 0 THEN src
    ELSE Append(RemoveAt(src, idx),
                <<id, IF winsize = <<>> THEN src[idx][2] ELSE winsize[1]>>)

\* the closure close_shell passes to send_modify
retain_modify(src, id) == SelectSeq(src, LAMBDA e : e[1] # id)

\* the closure add_shell passes to send_modify
push_modify(src, id) == Append(src, <<id, DefaultWinsize>>)

\* a faulty variant of NotifyWaiters: nobody is woken
NoNotify(st, id) == st

\* notify.notify_waiters(): every Notified future of the shell that exists
\* and has not fired yet is woken; nothing is stored for later futures
NotifyWaiters(st, id) ==
    [s \in Streams |->
        IF st[s].id = id /\ st[s].notified = "waiting"
        THEN [st[s] EXCEPT !.notified = "fired"]
        ELSE st[s]]

IdleTask == [pc |-> "idle", id |-> 0, winsize |-> <<>>]
UnusedStream == [pc |-> "unused", owner |-> "none", id |-> 0, start |-> 0,
                 chunknum |-> 0, notified |-> "none", held |-> FALSE]
OffGateway == [pc |-> "off", client |-> "open", pending |-> <<>>, subscribed |-> {},
               nrecv |-> 0, recv_at |-> <<>>, asked |-> <<>>]

\* the watch receivers that exist: one per running gateway
Receivers == {g \in Gateways : gw[g].pc \in {"select", "send_update"}}

(***************************************************************************)
(* Session::new                                                            *)
(***************************************************************************)
InitSession ==
    /\ shells = <<>>
    /\ guard = [id \in ShellIds |-> "none"]
    /\ source = <<>>
    /\ shutdown = FALSE
    /\ now = 0
    /\ updated = 0
    /\ task = [t \in Tasks |-> IdleTask]
    /\ ret = [t \in Tasks |-> <<>>]
    /\ stream = [s \in Streams |-> UnusedStream]
    /\ yielded = [s \in Streams |-> <<>>]
    /\ issued = <<>>
    /\ unseen = {}
    /\ gw = [g \in Gateways |-> OffGateway]
    /\ out = [g \in Gateways |-> <<>>]
    /\ chan = [g \in Gateways |-> <<>>]
    /\ closed_ret = {}
    /\ drained = <<>>

FreshQueues == counter = [hi |-> 0, lo |-> 1] /\ updates = <<>>

Init == InitSession /\ FreshQueues /\ replay = <<>>

\* the clock behind Instant::now(), in milliseconds since `created`
Tick ==
    /\ now < MaxTime
    /\ now' = now + 1
    /\ UNCHANGED <<shells, guard, source, shutdown, updated, task, ret, stream, yielded, gwVars>>

(***************************************************************************)
(* add_shell: the entry guard is held from the insert to the return.       *)
(***************************************************************************)
AddShellExists(t, id) ==
    /\ task[t].pc = "idle"
    /\ guard[id] = "none"
    /\ id \in DOMAIN shells
    /\ ret' = [ret EXCEPT ![t] = <<"add_shell", "Err">>]
    /\ UNCHANGED <<shells, guard, source, shutdown, now, updated, task, stream, yielded, gwVars>>

AddShellInsert(t, id) ==
    /\ task[t].pc = "idle"
    /\ guard[id] = "none"
    /\ id \notin DOMAIN shells
    /\ shells' = [i \in DOMAIN shells \cup {id} |->
                     IF i = id THEN DefaultState ELSE shells[i]]
    /\ guard' = [guard EXCEPT ![id] = t]
    /\ task' = [task EXCEPT ![t] = [pc |-> "add_shell", id |-> id, winsize |-> <<>>]]
    /\ ret' = [ret EXCEPT ![t] = <<>>]
    /\ UNCHANGED <<source, shutdown, now, updated, stream, yielded, gwVars>>

AddShellSend(t) ==
    /\ task[t].pc = "add_shell"
    /\ source' = push_modify(source, task[t].id)
    /\ guard' = [guard EXCEPT ![task[t].id] = "none"]
    /\ task' = [task EXCEPT ![t] = IdleTask]
    /\ ret' = [ret EXCEPT ![t] = <<"add_shell", "Ok">>]
    /\ UNCHANGED <<shells, shutdown, now, updated, stream, yielded, gwRest, closed_ret>>
    /\ unseen' = Receivers

(***************************************************************************)
(* close_shell: the guard taken by get_mut is dropped at the end of the    *)
(* match, before send_modify.                                              *)
(***************************************************************************)
CloseShellMissing(t, id) ==
    /\ task[t].pc = "idle"
    /\ guard[id] = "none"
    /\ id \notin DOMAIN shells
    /\ ret' = [ret EXCEPT ![t] = <<"close_shell", "Err">>]
    /\ UNCHANGED <<shells, guard, source, shutdown, now, updated, task, stream, yielded, gwVars>>

CloseShellAlready(t, id) ==
    /\ task[t].pc = "idle"
    /\ guard[id] = "none"
    /\ id \in DOMAIN shells
    /\ shells[id].closed
    /\ ret' = [ret EXCEPT ![t] = <<"close_shell", "Ok">>]
    /\ UNCHANGED <<shells, guard, source, shutdown, now, updated, task, stream, yielded, gwRest, unseen>>
    /\ closed_ret' = closed_ret \cup {id}

CloseShellMark(t, id) ==
    /\ task[t].pc = "idle"
    /\ guard[id] = "none"
    /\ IsOpen(id)
    /\ shells' = [shells EXCEPT ![id].closed = TRUE]
    /\ stream' = NotifyWaiters(stream, id)
    /\ task' = [task EXCEPT ![t] = [pc |-> "close_shell", id |-> id, winsize |-> <<>>]]
    /\ ret' = [ret EXCEPT ![t] = <<>>]
    /\ UNCHANGED <<guard, source, shutdown, now, updated, yielded, gwVars>>

CloseShellSend(t) ==
    /\ task[t].pc = "close_shell"
    /\ source' = retain_modify(source, task[t].id)
    /\ task' = [task EXCEPT ![t] = IdleTask]
    /\ ret' = [ret EXCEPT ![t] = <<"close_shell", "Ok">>]
    /\ UNCHANGED <<shells, guard, shutdown, now, updated, stream, yielded, gwRest>>
    /\ unseen' = Receivers
    /\ closed_ret' = closed_ret \cup {task[t].id}

(***************************************************************************)
(* move_shell: get_shell_mut, then send_modify with the guard held.        *)
(***************************************************************************)
MoveShellFail(t, id) ==
    /\ task[t].pc = "idle"
    /\ guard[id] = "none"
    /\ ~IsOpen(id)
    /\ ret' = [ret EXCEPT ![t] = <<"move_shell", "Err">>]
    /\ UNCHANGED <<shells, guard, source, shutdown, now, updated, task, stream, yielded, gwVars>>

MoveShellLock(t, id, winsize) ==
    /\ task[t].pc = "idle"
    /\ guard[id] = "none"
    /\ IsOpen(id)
    /\ guard' = [guard EXCEPT ![id] = t]
    /\ task' = [task EXCEPT ![t] = [pc |-> "move_shell", id |-> id, winsize |-> winsize]]
    /\ ret' = [ret EXCEPT ![t] = <<>>]
    /\ UNCHANGED <<shells, source, shutdown, now, updated, stream, yielded, gwVars>>

MoveShellSend(t) ==
    /\ task[t].pc = "move_shell"
    /\ source' = move_modify(source, task[t].id, task[t].winsize)
    /\ guard' = [guard EXCEPT ![task[t].id] = "none"]
    /\ task' = [task EXCEPT ![t] = IdleTask]
    /\ ret' = [ret EXCEPT ![t] = <<"move_shell", "Ok">>]
    /\ UNCHANGED <<shells, shutdown, now, updated, stream, yielded, gwRest, closed_ret>>
    /\ unseen' = Receivers

(***************************************************************************)
(* add_data: one step, everything happens under the guard.                 *)
(***************************************************************************)
AddDataFail(t, id) ==
    /\ task[t].pc = "idle"
    /\ guard[id] = "none"
    /\ ~IsOpen(id)
    /\ ret' = [ret EXCEPT ![t] = <<"add_data", "Err">>]
    /\ UNCHANGED <<shells, guard, source, shutdown, now, updated, task, stream, yielded, gwVars>>

AddData(t, id, data, seq) ==
    /\ task[t].pc = "idle"
    /\ guard[id] = "none"
    /\ IsOpen(id)
    /\ LET r == add_data(shells[id], data, seq, now) IN
        /\ shells' = [shells EXCEPT ![id] = r.shell]
        /\ stream' = IF r.notify THEN NotifyWaiters(stream, id) ELSE stream
        /\ ret' = [ret EXCEPT ![t] = <<"add_data", r.ret>>]
    /\ UNCHANGED <<guard, source, shutdown, now, updated, task, yielded, gwVars>>

\* access()
Access ==
    /\ updated # now
    /\ updated' = now
    /\ UNCHANGED <<shells, guard, source, shutdown, now, task, ret, stream, yielded, gwVars>>

\* shutdown()
Shutdown ==
    /\ ~shutdown
    /\ shutdown' = TRUE
    /\ UNCHANGED <<shells, guard, source, now, updated, task, ret, stream, yielded, gwVars>>

(***************************************************************************)
(* subscribe_chunks: the generator behind the stream.  pc "top" is the     *)
(* while condition, "read" the block that holds the map guard, "yielded"   *)
(* the suspension at yield, "select" the tokio::select!.                   *)
(***************************************************************************)
SubscribeChunks(s, id, chunknum) ==
    /\ stream[s].pc = "unused"
    /\ stream' = [stream EXCEPT ![s] = [pc |-> "top", owner |-> "api", id |-> id,
                                        start |-> chunknum, chunknum |-> chunknum,
                                        notified |-> "none", held |-> FALSE]]
    /\ UNCHANGED <<shells, guard, source, shutdown, now, updated, task, ret, yielded, gwVars>>

StreamTop(s) ==
    /\ stream[s].pc = "top"
    /\ stream' = [stream EXCEPT ![s].pc = IF shutdown THEN "done" ELSE "read"]
    /\ UNCHANGED <<shells, guard, source, shutdown, now, updated, task, ret, yielded, gwVars>>

StreamGone(s) ==
    /\ stream[s].pc = "read"
    /\ guard[stream[s].id] = "none"
    /\ ~IsOpen(stream[s].id)
    /\ stream' = [stream EXCEPT ![s].pc = "done"]
    /\ UNCHANGED <<shells, guard, source, shutdown, now, updated, task, ret, yielded, gwVars>>

\* a faulty variant of NextChunknum: the cursor moves by one fragment
NextChunknumStale(s) == stream[s].chunknum + 1

\* chunknum = shell.data.len()
NextChunknum(s) == Len(shells[stream[s].id].data)

\* shell.data[chunknum..].to_vec()
Chunks(s) ==
    SubSeq(shells[stream[s].id].data, stream[s].chunknum + 1,
           Len(shells[stream[s].id].data))

StreamYield(s) ==
    /\ stream[s].pc = "read"
    /\ guard[stream[s].id] = "none"
    /\ IsOpen(stream[s].id)
    /\ stream[s].chunknum < Len(shells[stream[s].id].data)
    /\ yielded' = [yielded EXCEPT ![s] = Append(@, Chunks(s))]
    /\ stream' = [stream EXCEPT ![s].pc = "yielded", ![s].notified = "waiting",
                                ![s].chunknum = NextChunknum(s),
                                ![s].held = (stream[s].owner # "api")]
    /\ UNCHANGED <<shells, guard, source, shutdown, now, updated, task, ret, gwVars>>

StreamNoChunks(s) ==
    /\ stream[s].pc = "read"
    /\ guard[stream[s].id] = "none"
    /\ IsOpen(stream[s].id)
    /\ stream[s].chunknum >= Len(shells[stream[s].id].data)
    /\ stream' = [stream EXCEPT ![s].pc = "select", ![s].notified = "waiting"]
    /\ UNCHANGED <<shells, guard, source, shutdown, now, updated, task, ret, yielded, gwVars>>

\* the consumer polls the stream again after a yield (a gateway's forwarding
\* task does so once chunks_tx.send has taken the batch)
StreamResume(s) ==
    /\ stream[s].pc = "yielded"
    /\ ~stream[s].held
    /\ stream' = [stream EXCEPT ![s].pc = "select"]
    /\ UNCHANGED <<shells, guard, source, shutdown, now, updated, task, ret, yielded, gwVars>>

StreamNotified(s) ==
    /\ stream[s].pc = "select"
    /\ stream[s].notified = "fired"
    /\ stream' = [stream EXCEPT ![s].pc = "top", ![s].notified = "none"]
    /\ UNCHANGED <<shells, guard, source, shutdown, now, updated, task, ret, yielded, gwVars>>

StreamTerminated(s) ==
    /\ stream[s].pc = "select"
    /\ shutdown
    /\ stream' = [stream EXCEPT ![s].pc = "done", ![s].notified = "none"]
    /\ UNCHANGED <<shells, guard, source, shutdown, now, updated, task, ret, yielded, gwVars>>

(***************************************************************************)
(* next_id: fetch_add(1) on the u32, which wraps.                          *)
(***************************************************************************)
U32Inc(c) ==
    IF c.lo = TwoTo16 - 1
    THEN [hi |-> (c.hi + 1) % TwoTo16, lo |-> 0]
    ELSE [c EXCEPT !.lo = @ + 1]

U32Less(a, b) == a.hi < b.hi \/ (a.hi = b.hi /\ a.lo < b.lo)

U32Zero == [hi |-> 0, lo |-> 0]

(***************************************************************************)
(* handle_socket.  pc "select" is the tokio::select! of the loop,          *)
(* "send_update" the await of update_tx.send on a full channel.  A step    *)
(* that receives a frame runs the dispatch up to its first suspension.     *)
(* socket.send fails once the client has hung up, and the `?` ends the     *)
(* task.                                                                   *)
(***************************************************************************)
Connect(g) ==
    /\ gw[g].pc = "off"
    /\ gw' = [gw EXCEPT ![g].pc = "select"]
    /\ unseen' = unseen \cup {g}
    /\ UNCHANGED <<shells, guard, source, shutdown, now, updated, task, ret, stream,
                   yielded, counter, issued, updates, out, chan, closed_ret, replay, drained>>

ClientClose(g) ==
    /\ gw[g].pc \notin {"off", "done"}
    /\ gw[g].client = "open"
    /\ gw' = [gw EXCEPT ![g].client = "closed"]
    /\ UNCHANGED <<shells, guard, source, shutdown, now, updated, task, ret, stream,
                   yielded, counter, issued, updates, out, chan, closed_ret, replay, drained,
                   unseen>>

\* send(&mut socket, frame).await?
SocketSend(g, frame) ==
    IF gw[g].client = "open" THEN Append(out[g], frame) ELSE out[g]

AfterSend(g) == IF gw[g].client = "open" THEN "select" ELSE "done"

\* the close code of get_session_ws for an unknown session
MissingCode == 4404

CloseFrame == <<"Close", MissingCode, "could not find the requested session">>

\* the names a client may ask for, and those state.store holds
Names == {"known", "missing"}
Store == {"known"}

\* get_session_ws, session not found: the upgraded socket gets a close frame
RefuseMissing(g) ==
    /\ gw[g].pc = "off"
    /\ out' = [out EXCEPT ![g] = SocketSend(g, CloseFrame)]
    /\ gw' = [gw EXCEPT ![g].pc = "refused"]
    /\ UNCHANGED <<shells, guard, source, shutdown, now, updated, task, ret, stream,
                   yielded, counter, issued, updates, chan, closed_ret, replay, drained,
                   unseen>>

\* a faulty variant of GetSessionWs: the store is not consulted
GetSessionWsAny(g, name) == Connect(g)

\* get_session_ws
GetSessionWs(g, name) ==
    IF name \in Store THEN Connect(g) ELSE RefuseMissing(g)

GwTerminated(g) ==
    /\ gw[g].pc = "select"
    /\ shutdown
    /\ out' = [out EXCEPT ![g] = SocketSend(g, <<"Terminated">>)]
    /\ gw' = [gw EXCEPT ![g].pc = "done"]
    /\ unseen' = unseen \ {g}
    /\ UNCHANGED <<shells, guard, source, shutdown, now, updated, task, ret, stream,
                   yielded, counter, issued, updates, chan, closed_ret, replay, drained>>

GwShells(g) ==
    /\ gw[g].pc = "select"
    /\ g \in unseen
    /\ out' = [out EXCEPT ![g] = SocketSend(g, <<"Shells", source>>)]
    /\ gw' = [gw EXCEPT ![g].pc = AfterSend(g)]
    /\ unseen' = unseen \ {g}
    /\ UNCHANGED <<shells, guard, source, shutdown, now, updated, task, ret, stream,
                   yielded, counter, issued, updates, chan, closed_ret, replay, drained>>

GwChunks(g) ==
    /\ gw[g].pc = "select"
    /\ chan[g] # <<>>
    /\ out' = [out EXCEPT ![g] = SocketSend(g, <<"Chunks", chan[g][1][1], chan[g][1][2]>>)]
    /\ chan' = [chan EXCEPT ![g] = Tail(@)]
    /\ gw' = [gw EXCEPT ![g].pc = AfterSend(g)]
    /\ unseen' = IF gw[g].client = "open" THEN unseen ELSE unseen \ {g}
    /\ UNCHANGED <<shells, guard, source, shutdown, now, updated, task, ret, stream,
                   yielded, counter, issued, updates, closed_ret, replay, drained>>

\* recv(&mut socket) returns None: the client has closed the connection
GwRecvNone(g) ==
    /\ gw[g].pc = "select"
    /\ gw[g].client = "closed"
    /\ gw' = [gw EXCEPT ![g].pc = "done"]
    /\ unseen' = unseen \ {g}
    /\ UNCHANGED <<shells, guard, source, shutdown, now, updated, task, ret, stream,
                   yielded, counter, issued, updates, out, chan, closed_ret, replay, drained>>

\* recv(&mut socket) returns a decoded frame
CanRecv(g) ==
    /\ gw[g].pc = "select"
    /\ gw[g].client = "open"
    /\ gw[g].nrecv < MaxFrames

Received(g) == [gw[g] EXCEPT !.nrecv = @ + 1, !.recv_at = <<now>>]

\* update_tx.send(msg).await: completes at once when the channel has room
\* a faulty variant of Enqueue: a message that finds the channel full is
\* dropped
EnqueueDrop(g, rec, msg) ==
    /\ updates' = IF Len(updates) < UpdateCap THEN Append(updates, msg) ELSE updates
    /\ gw' = [gw EXCEPT ![g] = [rec EXCEPT !.asked = Append(@, msg)]]

\* (asked logs the messages the frames of this connection have called for)
Enqueue(g, rec, msg) ==
    IF Len(updates) < UpdateCap
    THEN /\ updates' = Append(updates, msg)
         /\ gw' = [gw EXCEPT ![g] = [rec EXCEPT !.asked = Append(@, msg)]]
    ELSE /\ updates' = updates
         /\ gw' = [gw EXCEPT ![g] = [rec EXCEPT !.pc = "send_update", !.pending = <<msg>>,
                                                !.asked = Append(@, msg)]]

GwSendUpdate(g) ==
    /\ gw[g].pc = "send_update"
    /\ Len(updates) < UpdateCap
    /\ updates' = Append(updates, gw[g].pending[1])
    /\ gw' = [gw EXCEPT ![g].pc = "select", ![g].pending = <<>>]
    /\ UNCHANGED <<shells, guard, source, shutdown, now, updated, task, ret, stream,
                   yielded, counter, issued, out, chan, closed_ret, replay, drained, unseen>>

GwCreate(g) ==
    /\ CanRecv(g)
    /\ counter' = U32Inc(counter)
    /\ issued' = Append(issued, counter)
    /\ Enqueue(g, Received(g), <<"CreateShell", counter>>)
    /\ UNCHANGED <<shells, guard, source, shutdown, now, updated, task, ret, stream,
                   yielded, out, chan, closed_ret, replay, drained, unseen>>

GwClose(g, id) ==
    /\ CanRecv(g)
    /\ Enqueue(g, Received(g), <<"CloseShell", id>>)
    /\ UNCHANGED <<shells, guard, source, shutdown, now, updated, task, ret, stream,
                   yielded, counter, issued, out, chan, closed_ret, replay, drained, unseen>>

GwData(g, id, data) ==
    /\ CanRecv(g)
    /\ Enqueue(g, Received(g), <<"Input", id, data>>)
    /\ UNCHANGED <<shells, guard, source, shutdown, now, updated, task, ret, stream,
                   yielded, counter, issued, out, chan, closed_ret, replay, drained, unseen>>

GwMoveError(g, id) ==
    /\ CanRecv(g)
    /\ guard[id] = "none"
    /\ ~IsOpen(id)
    /\ out' = [out EXCEPT ![g] = Append(@, <<"Error", id>>)]
    /\ gw' = [gw EXCEPT ![g] = Received(g)]
    /\ UNCHANGED <<shells, guard, source, shutdown, now, updated, task, ret, stream,
                   yielded, counter, issued, updates, chan, closed_ret, replay, drained, unseen>>

GwMove(g, id, winsize) ==
    /\ CanRecv(g)
    /\ guard[id] = "none"
    /\ IsOpen(id)
    /\ source' = move_modify(source, id, winsize)
    /\ unseen' = Receivers
    /\ IF winsize # <<>>
       THEN Enqueue(g, Received(g), <<"Resize", id, winsize[1].rows, winsize[1].cols>>)
       ELSE updates' = updates /\ gw' = [gw EXCEPT ![g] = Received(g)]
    /\ UNCHANGED <<shells, guard, shutdown, now, updated, task, ret, stream,
                   yielded, counter, issued, out, chan, closed_ret, replay, drained>>

GwSubscribeAgain(g, id) ==
    /\ CanRecv(g)
    /\ id \in gw[g].subscribed
    /\ gw' = [gw EXCEPT ![g] = Received(g)]
    /\ UNCHANGED <<shells, guard, source, shutdown, now, updated, task, ret, stream,
                   yielded, counter, issued, updates, out, chan, closed_ret, replay, drained,
                   unseen>>

\* a faulty variant of GwSubscribe: no test of the subscribed set
GwSubscribeAlways(g, id, chunknum) ==
    /\ CanRecv(g)
    /\ \E r \in Streams : stream[r].pc = "unused"
    /\ LET s == CHOOSE r \in Streams : stream[r].pc = "unused" IN
        stream' = [stream EXCEPT ![s] =
                     [pc |-> "top", owner |-> g, id |-> id, start |-> chunknum,
                      chunknum |-> chunknum, notified |-> "none", held |-> FALSE]]
    /\ gw' = [gw EXCEPT ![g] = [Received(g) EXCEPT !.subscribed = @ \cup {id}]]
    /\ UNCHANGED <<shells, guard, source, shutdown, now, updated, task, ret,
                   yielded, counter, issued, updates, out, chan, closed_ret, replay, drained,
                   unseen>>

\* the first Subscribe(id, chunknum): tokio::spawn of the forwarding task
GwSubscribe(g, id, chunknum) ==
    /\ CanRecv(g)
    /\ id \notin gw[g].subscribed
    /\ \E r \in Streams : stream[r].pc = "unused"
    /\ LET s == CHOOSE r \in Streams : stream[r].pc = "unused" IN
        stream' = [stream EXCEPT ![s] =
                     [pc |-> "top", owner |-> g, id |-> id, start |-> chunknum,
                      chunknum |-> chunknum, notified |-> "none", held |-> FALSE]]
    /\ gw' = [gw EXCEPT ![g] = [Received(g) EXCEPT !.subscribed = @ \cup {id}]]
    /\ UNCHANGED <<shells, guard, source, shutdown, now, updated, task, ret,
                   yielded, counter, issued, updates, out, chan, closed_ret, replay, drained,
                   unseen>>

\* chunks_tx.send((id, chunks)).await on the channel of capacity 1
FwdSend(s) ==
    /\ stream[s].held
    /\ gw[stream[s].owner].pc # "done"
    /\ chan[stream[s].owner] = <<>>
    /\ chan' = [chan EXCEPT ![stream[s].owner] =
                  <<<<stream[s].id, yielded[s][Len(yielded[s])]>>>>]
    /\ stream' = [stream EXCEPT ![s].held = FALSE]
    /\ UNCHANGED <<shells, guard, source, shutdown, now, updated, task, ret,
                   yielded, counter, issued, updates, out, gw, closed_ret, replay, drained,
                   unseen>>

\* the send fails because chunks_rx is gone: break, the stream is dropped
FwdSendErr(s) ==
    /\ stream[s].held
    /\ gw[stream[s].owner].pc = "done"
    /\ stream' = [stream EXCEPT ![s].held = FALSE, ![s].pc = "done",
                                ![s].notified = "none"]
    /\ UNCHANGED <<shells, guard, source, shutdown, now, updated, task, ret,
                   yielded, counter, issued, updates, out, gw, chan, closed_ret, replay, drained,
                   unseen>>

\* the agent-facing transport takes a message from update_rx
Dequeue ==
    /\ updates # <<>>
    /\ Len(drained) < MaxDrain
    /\ updates' = Tail(updates)
    /\ drained' = Append(drained, Head(updates))
    /\ UNCHANGED <<shells, guard, source, shutdown, now, updated, task, ret, stream,
                   yielded, counter, issued, out, gw, chan, closed_ret, replay, unseen>>

(***************************************************************************)
(* Groups of steps a caller can take.                                      *)
(***************************************************************************)
LifecycleCall(t, id) ==
    \/ AddShellExists(t, id)
    \/ AddShellInsert(t, id)
    \/ CloseShellMissing(t, id)
    \/ CloseShellAlready(t, id)
    \/ CloseShellMark(t, id)

MoveCall(t, id) ==
    \/ MoveShellFail(t, id)
    \/ \E w \in WinsizeArgs : MoveShellLock(t, id, w)

DataCall(t, id, calls) ==
    \/ AddDataFail(t, id)
    \/ \E c \in calls : AddData(t, id, c[2], c[1])

Return(t) ==
    \/ AddShellSend(t)
    \/ CloseShellSend(t)

StreamStep(s) ==
    \/ StreamTop(s)
    \/ StreamGone(s)
    \/ StreamYield(s)
    \/ StreamNoChunks(s)
    \/ StreamResume(s)
    \/ StreamNotified(s)
    \/ StreamTerminated(s)

(***************************************************************************)
(* Spec: the data path of one shell.  One caller adds and closes the       *)
(* shell and feeds it arbitrary (seq, data) fragments while a chunk        *)
(* stream tails it.  The clock stands still; IdealSpec lets it run.        *)
(***************************************************************************)
Calls == {c \in (0..MaxBytes) \X Strs : c[1] + Len(c[2]) <= MaxBytes}

Next ==
    \/ Shutdown
    \/ LifecycleCall("t1", 1)
    \/ DataCall("t1", 1, Calls)
    \/ Return("t1")
    \/ \E n \in 0..MaxStart : SubscribeChunks("s1", 1, n)
    \/ \E s \in Streams : StreamStep(s)

Spec == Init /\ [][Next]_vars

\* whoever holds a chunk stream keeps polling it
StreamFairness == \A s \in Streams : WF_vars(StreamStep(s))

FairSpec == Spec /\ StreamFairness

(***************************************************************************)
(* IdealSpec: two shells fed in any interleaving; every add_data argument  *)
(* is a slice of the shell's ideal output stream, cut on character         *)
(* boundaries.                                                             *)
(***************************************************************************)
Ideal(id) == IF id = 1 THEN <<97, 195, 169, 97>> ELSE <<195, 169, 97, 97>>

IdealCalls(id) ==
    {<<i, SubSeq(Ideal(id), i + 1, j)>> :
        <<i, j>> \in {p \in (0..Len(Ideal(id))) \X (0..Len(Ideal(id))) :
                        /\ p[1] <= p[2]
                        /\ is_char_boundary(Ideal(id), p[1])
                        /\ is_char_boundary(Ideal(id), p[2])}}

IdealNext ==
    \/ Tick
    \/ \E id \in {1, 2} : LifecycleCall("t1", id)
    \/ \E id \in {1, 2} : DataCall("t1", id, IdealCalls(id))
    \/ Return("t1")

IdealSpec == Init /\ [][IdealNext]_vars

(***************************************************************************)
(* GatewaySpec: one browser connection, the agent side adding, feeding     *)
(* and closing shell 1, and the consumer of the update channel.  The       *)
(* session is either fresh, or long-lived: next_id has been called         *)
(* 2^32 - 2 times and 255 messages wait in the update channel.  The clock  *)
(* stands still here; ActivitySpec lets it run.                            *)
(***************************************************************************)
GwIds == {1}

ViewCalls == {<<0, <<97>>>>}

Backlog == [i \in 1..(UpdateCap - 1) |-> <<"Input", 1, <<97>>>>]

GatewayInit ==
    /\ InitSession
    /\ replay = <<>>
    /\ \/ FreshQueues
       \/ counter = [hi |-> TwoTo16 - 1, lo |-> TwoTo16 - 1] /\ updates = Backlog

\* the agent side: it adds shell 1, sends its output and closes it
AgentCall(t, id) ==
    \/ AddShellInsert(t, id)
    \/ CloseShellMark(t, id)
    \/ \E c \in ViewCalls : AddData(t, id, c[2], c[1])

GwFrame(g) ==
    \/ GwCreate(g)
    \/ \E id \in GwIds : GwClose(g, id)
    \/ \E id \in GwIds : GwData(g, id, <<97>>)
    \/ \E id \in GwIds : GwMoveError(g, id)
    \/ \E id \in GwIds, w \in WinsizeArgs : GwMove(g, id, w)
    \/ \E id \in GwIds : GwSubscribeAgain(g, id)
    \/ \E id \in GwIds, n \in 0..MaxStart : GwSubscribe(g, id, n)

GwStep(g) ==
    \/ GwShells(g)
    \/ GwChunks(g)
    \/ GwRecvNone(g)
    \/ GwSendUpdate(g)

FwdStep(s) == FwdSend(s) \/ FwdSendErr(s)

GatewayNext ==
    \/ Shutdown
    \/ Dequeue
    \/ \E id \in GwIds : AgentCall("t1", id)
    \/ Return("t1")
    \/ \E g \in Browser : Connect(g)
    \/ \E g \in Browser : ClientClose(g)
    \/ \E g \in Browser : GwFrame(g)
    \/ \E g \in Browser : GwStep(g)
    \/ \E g \in Browser : GwTerminated(g)
    \/ \E s \in Streams : StreamStep(s)
    \/ \E s \in Streams : FwdStep(s)

GatewaySpec == GatewayInit /\ [][GatewayNext]_vars

\* the runtime keeps polling ready tasks, and tokio::select! picks among the
\* ready branches at random, so a branch that is ready again and again is
\* taken; a caller inside add_shell or close_shell runs on to its return;
\* nothing makes the client send, the agent transport receive or the agent
\* call
GatewayFairness ==
    /\ \A t \in Tasks : WF_vars(Return(t))
    /\ \A g \in Browser : SF_vars(GwTerminated(g))
    /\ \A g \in Browser : WF_vars(GwStep(g))
    /\ \A s \in Streams : WF_vars(StreamStep(s))
    /\ \A s \in Streams : WF_vars(FwdStep(s))

FairGatewaySpec == GatewaySpec /\ GatewayFairness

(***************************************************************************)
(* SubscribeSpec: one browser connection subscribes to shell 1 while the   *)
(* agent side adds the shell and appends two fragments.  The update        *)
(* channel is empty or full at the start, so that a Data frame can find    *)
(* it full.                                                                *)
(***************************************************************************)
SubCalls == {<<0, <<97>>>>, <<1, <<195, 169>>>>}

FullQueue == [i \in 1..UpdateCap |-> <<"Input", 1, <<97>>>>]

SubscribeInit ==
    /\ InitSession
    /\ replay = <<>>
    /\ counter = [hi |-> 0, lo |-> 1]
    /\ updates = <<>> \/ updates = FullQueue

SubscribeNext ==
    \/ Shutdown
    \/ Dequeue
    \/ AddShellInsert("t1", 1)
    \/ AddShellSend("t1")
    \/ \E c \in SubCalls : AddData("t1", 1, c[2], c[1])
    \/ Connect("g1")
    \/ ClientClose("g1")
    \/ \E n \in 0..MaxStart : GwSubscribe("g1", 1, n)
    \/ GwSubscribeAgain("g1", 1)
    \/ GwData("g1", 1, <<97>>)
    \/ GwStep("g1")
    \/ GwTerminated("g1")
    \/ \E s \in Streams : StreamStep(s)
    \/ \E s \in Streams : FwdStep(s)

SubscribeSpec == SubscribeInit /\ [][SubscribeNext]_vars

FairSubscribeSpec == SubscribeSpec /\ GatewayFairness

(***************************************************************************)
(* BackpressureSpec: two browser connections send frames that enqueue      *)
(* messages, g1 about shell 1 (and Create), g2 about shell 2, while the    *)
(* agent transport takes messages.  The update channel is empty at the     *)
(* start, or holds 255 messages about shell 3.                             *)
(***************************************************************************)
OtherBacklog == [i \in 1..(UpdateCap - 1) |-> <<"Input", 3, <<97>>>>]

BackpressureInit ==
    /\ InitSession
    /\ replay = <<>>
    /\ counter = [hi |-> 0, lo |-> 1]
    /\ updates = <<>> \/ updates = OtherBacklog

BackpressureNext ==
    \/ Dequeue
    \/ AddShellInsert("t1", 1)
    \/ AddShellSend("t1")
    \/ \E g \in Gateways : Connect(g)
    \/ GwCreate("g1")
    \/ GwClose("g1", 1) \/ GwClose("g2", 2)
    \/ GwData("g1", 1, <<97>>) \/ GwData("g2", 2, <<97>>)
    \/ GwMove("g1", 1, <<OtherWinsize>>)
    \/ \E g \in Gateways : GwSendUpdate(g)

BackpressureSpec == BackpressureInit /\ [][BackpressureNext]_vars

(***************************************************************************)
(* MissingSpec: clients open WebSockets for the session's name or for a    *)
(* name the store does not hold, while the agent side adds shell 1 and     *)
(* feeds it and the accepted connections exchange frames.                  *)
(***************************************************************************)
MissingNext ==
    \/ \E g \in Gateways, name \in Names : GetSessionWs(g, name)
    \/ \E g \in Gateways : ClientClose(g)
    \/ AddShellInsert("t1", 1)
    \/ AddShellSend("t1")
    \/ \E c \in ViewCalls : AddData("t1", 1, c[2], c[1])
    \/ \E g \in Gateways : GwData(g, 1, <<97>>)
    \/ \E g \in Gateways : GwShells(g)
    \/ \E g \in Gateways : GwRecvNone(g)

MissingSpec == Init /\ [][MissingNext]_vars

(***************************************************************************)
(* ShellsSpec: one browser connection follows the view while the agent     *)
(* side adds and closes shell 1 and the client moves it and types.  The    *)
(* session is fresh or long-lived, as in GatewaySpec.                      *)
(***************************************************************************)
ShellsNext ==
    \/ Shutdown
    \/ Dequeue
    \/ AddShellInsert("t1", 1)
    \/ CloseShellMark("t1", 1)
    \/ Return("t1")
    \/ \E g \in Browser : Connect(g)
    \/ \E g \in Browser : ClientClose(g)
    \/ \E g \in Browser, w \in WinsizeArgs : GwMove(g, 1, w)
    \/ \E g \in Browser : GwData(g, 1, <<97>>)
    \/ \E g \in Browser : GwShells(g)
    \/ \E g \in Browser : GwRecvNone(g)
    \/ \E g \in Browser : GwSendUpdate(g)
    \/ \E g \in Browser : GwTerminated(g)

ShellsSpec == GatewayInit /\ [][ShellsNext]_vars

\* as GatewayFairness, without chunk streams
ShellsFairness ==
    /\ WF_vars(Return("t1"))
    /\ \A g \in Browser : SF_vars(GwTerminated(g))
    /\ \A g \in Browser : WF_vars(GwShells(g) \/ GwRecvNone(g) \/ GwSendUpdate(g))

FairShellsSpec == ShellsSpec /\ ShellsFairness

(***************************************************************************)
(* ActivitySpec: the clock runs while one browser connection sends frames  *)
(* to a fresh session; the agent side adds shell 1 and refreshes the       *)
(* session's last-activity instant with access().                          *)
(***************************************************************************)
ActivityNext ==
    \/ Tick
    \/ Access
    \/ \E id \in GwIds : AddShellInsert("t1", id)
    \/ AddShellSend("t1")
    \/ \E g \in Browser : Connect(g)
    \/ \E g \in Browser : GwFrame(g)
    \/ \E g \in Browser : GwShells(g)
    \/ \E s \in Streams : StreamTop(s) \/ StreamGone(s) \/ StreamNoChunks(s)

ActivitySpec == Init /\ [][ActivityNext]_vars

(***************************************************************************)
(* ReplaySpec: add_data as a function of the shell record.  Init draws a   *)
(* schedule of calls and a prefix length cut; run `once` applies the       *)
(* schedule to a fresh open shell, run `twice` applies the prefix, the     *)
(* prefix again and then the rest.  `clean` says that no call of the       *)
(* prefix was a gap (seq > seqnum) or failed when run `once` applied it.   *)
(***************************************************************************)
ReplayCalls ==
    {<<0, <<97>>>>, <<1, <<97>>>>, <<2, <<97>>>>, <<0, <<97, 97>>>>,
     <<0, <<195, 169>>>>, <<1, <<195, 169>>>>, <<0, <<195, 169, 97>>>>}

RECURSIVE Schedules(_)
Schedules(k) ==
    IF k = 0 THEN {<<>>}
    ELSE LET S == Schedules(k - 1) IN S \cup {Append(x, c) : x \in S, c \in ReplayCalls}

ReplayInit ==
    /\ InitSession
    /\ FreshQueues
    /\ \E sched \in Schedules(MaxSched) : \E cut \in 0..Len(sched) :
        replay = [sched |-> sched, cut |-> cut, once |-> DefaultState, i |-> 0,
                  twice |-> DefaultState, j |-> 0, clean |-> TRUE]

ReplayOnce ==
    /\ replay.i < Len(replay.sched)
    /\ LET c == replay.sched[replay.i + 1]
           r == add_data(replay.once, c[2], c[1], now)
           bad == c[1] > replay.once.seqnum \/ r.ret = "Err"
       IN replay' = [replay EXCEPT !.once = r.shell, !.i = @ + 1,
                                   !.clean = @ /\ (replay.i + 1 > replay.cut \/ ~bad)]
    /\ UNCHANGED <<shells, guard, source, shutdown, now, updated, task, ret, stream,
                   yielded, counter, issued, updates, gw, out, chan, unseen, closed_ret,
                   drained>>

ReplayTwice ==
    /\ replay.i = Len(replay.sched)
    /\ replay.j < replay.cut + Len(replay.sched)
    /\ LET c == (SubSeq(replay.sched, 1, replay.cut) \o replay.sched)[replay.j + 1]
           r == add_data(replay.twice, c[2], c[1], now)
       IN replay' = [replay EXCEPT !.twice = r.shell, !.j = @ + 1]
    /\ UNCHANGED <<shells, guard, source, shutdown, now, updated, task, ret, stream,
                   yielded, counter, issued, updates, gw, out, chan, unseen, closed_ret,
                   drained>>

ReplayNext == ReplayOnce \/ ReplayTwice

ReplaySpec == ReplayInit /\ [][ReplayNext]_vars

(***************************************************************************)
(* ViewSpec: concurrent add_shell, close_shell and move_shell on           *)
(* MaxShells shells, and add_data on shell 1.                              *)
(***************************************************************************)
ViewNext ==
    \/ \E t \in Tasks, id \in ShellIds : LifecycleCall(t, id)
    \/ \E t \in Tasks, id \in ShellIds : MoveCall(t, id)
    \/ \E t \in Tasks : DataCall(t, 1, ViewCalls)
    \/ \E t \in Tasks : Return(t)
    \/ \E t \in Tasks : MoveShellSend(t)

ViewSpec == Init /\ [][ViewNext]_vars

(***************************************************************************)
(* ErrorSpec: two callers make every call, failing ones included, on       *)
(* shells 1 and 2.                                                         *)
(***************************************************************************)
ErrorIds == {1, 2}

ErrorNext ==
    \/ \E t \in Tasks, id \in ErrorIds : LifecycleCall(t, id)
    \/ \E t \in Tasks, id \in ErrorIds : MoveCall(t, id)
    \/ \E t \in Tasks, id \in ErrorIds : DataCall(t, id, ViewCalls)
    \/ \E t \in Tasks : Return(t)
    \/ \E t \in Tasks : MoveShellSend(t)

ErrorSpec == Init /\ [][ErrorNext]_vars

(***************************************************************************)
(* Helpers of the properties.                                              *)
(***************************************************************************)
RECURSIVE Bytes(_)
\* the concatenation of the fragments of a data vector
Bytes(data) ==
    IF data = <<>> THEN <<>> ELSE Bytes(SubSeq(data, 1, Len(data) - 1)) \o data[Len(data)][2]

RECURSIVE Flatten(_)
\* the concatenation of a sequence of batches
Flatten(batches) ==
    IF batches = <<>> THEN <<>>
    ELSE Flatten(SubSeq(batches, 1, Len(batches) - 1)) \o batches[Len(batches)]

Woken(id) ==
    \A s \in Streams :
        stream[s].id = id /\ stream[s].notified = "waiting" => stream'[s].notified = "fired"

Appended(id, fragment) ==
    /\ Len(shells'[id].data) = Len(shells[id].data) + 1
    /\ SubSeq(shells'[id].data, 1, Len(shells[id].data)) = shells[id].data
    /\ shells'[id].data[Len(shells'[id].data)][2] = fragment
    /\ shells'[id].seqnum = shells[id].seqnum + Len(fragment)
    /\ shells'[id].closed = shells[id].closed
    /\ Woken(id)

(***************************************************************************)
(* C1 as stated: an add_data(1, bytes, seq) call on the open shell with    *)
(* seqnum n changes the shell iff seq <= n < seq + len; then it appends    *)
(* the one fragment bytes[n - seq ..], adds its length to seqnum and wakes *)
(* the notifier; otherwise nothing changes and the call returns Ok.        *)
(***************************************************************************)
C1_Original ==
    [][\A c \in Calls :
         AddData("t1", 1, c[2], c[1]) =>
            LET n == shells[1].seqnum IN
            IF c[1] <= n /\ n < c[1] + Len(c[2])
            THEN Appended(1, SubSeq(c[2], n - c[1] + 1, Len(c[2])))
            ELSE shells'[1] = shells[1] /\ ret'["t1"] = <<"add_data", "Ok">>]_vars

(***************************************************************************)
(* C1 amended: the shell changes iff seq <= n < seq + len and byte n - seq *)
(* of bytes starts a character; then the fragment bytes[n - seq ..] is     *)
(* appended, seqnum grows by its length, the notifier is woken and the     *)
(* call returns Ok.  With seq <= n < seq + len inside a character the call *)
(* fails and changes nothing; a duplicate or a gap changes nothing and     *)
(* returns Ok.                                                             *)
(***************************************************************************)
C1_AddDataEffect ==
    [][\A c \in Calls :
         AddData("t1", 1, c[2], c[1]) =>
            LET n == shells[1].seqnum IN
            IF c[1] <= n /\ n < c[1] + Len(c[2])
            THEN IF c[2][n - c[1] + 1] \in 128..191
                 THEN shells'[1] = shells[1] /\ ret'["t1"] = <<"add_data", "Err">>
                 ELSE /\ Appended(1, SubSeq(c[2], n - c[1] + 1, Len(c[2])))
                      /\ ret'["t1"] = <<"add_data", "Ok">>
            ELSE shells'[1] = shells[1] /\ ret'["t1"] = <<"add_data", "Ok">>]_vars

\* on the open shell holding "a" (seqnum 1) an add_data call has failed: its
\* bytes overlap seqnum inside a character
C1_Witness ==
    /\ IsOpen(1)
    /\ Len(shells[1].data) = 1
    /\ shells[1].data[1][2] = <<97>>
    /\ shells[1].seqnum = 1
    /\ ret["t1"] = <<"add_data", "Err">>

(***************************************************************************)
(* C2: when every add_data argument is a slice of the shell's ideal        *)
(* stream, in every reachable state every shell's fragments have total     *)
(* length seqnum and concatenate to the first seqnum bytes of the ideal    *)
(* stream.                                                                 *)
(***************************************************************************)
C2_ByteAccounting ==
    \A id \in DOMAIN shells :
        /\ Len(Bytes(shells[id].data)) = shells[id].seqnum
        /\ shells[id].seqnum <= Len(Ideal(id))
        /\ Bytes(shells[id].data) = SubSeq(Ideal(id), 1, shells[id].seqnum)

\* both shells hold their whole ideal stream, in several fragments
C2_Witness ==
    /\ DOMAIN shells = {1, 2}
    /\ \A id \in {1, 2} :
        /\ shells[id].seqnum = Len(Ideal(id))
        /\ Len(shells[id].data) >= 2

(***************************************************************************)
(* C3: what a chunk stream opened with start_chunk has yielded so far is,  *)
(* concatenated, exactly data[start_chunk .. chunknum], in append order,   *)
(* no fragment skipped or repeated; no batch is empty and the cursor never *)
(* passes the end of data once data has reached start_chunk.               *)
(***************************************************************************)
C3_NoGapDelivery ==
    \A s \in Streams :
        stream[s].pc # "unused" =>
            IF stream[s].id \in DOMAIN shells
            THEN LET data == shells[stream[s].id].data IN
                 /\ stream[s].start <= stream[s].chunknum
                 /\ stream[s].chunknum <= Len(data) \/ stream[s].chunknum = stream[s].start
                 /\ Flatten(yielded[s]) = SubSeq(data, stream[s].start + 1, stream[s].chunknum)
                 /\ \A i \in 1..Len(yielded[s]) : yielded[s][i] # <<>>
            ELSE yielded[s] = <<>>

\* a stream opened at fragment 1 has yielded two batches while fragments
\* were being appended
C3_Witness ==
    /\ stream["s1"].start = 1
    /\ Len(yielded["s1"]) = 2
    /\ stream["s1"].chunknum = 3

ReplayDone ==
    /\ replay.i = Len(replay.sched)
    /\ replay.j = replay.cut + Len(replay.sched)

SameStream(a, b) == a.seqnum = b.seqnum /\ Bytes(a.data) = Bytes(b.data)

(***************************************************************************)
(* C6 as stated: for every schedule of add_data calls and every prefix,    *)
(* running the prefix twice and then the rest ends with the same seqnum    *)
(* and the same bytes as running the schedule once.                        *)
(***************************************************************************)
C6_Original == ReplayDone => SameStream(replay.once, replay.twice)

(***************************************************************************)
(* C6 amended: the same, for the prefixes of which no call was ignored as  *)
(* a gap or failed when it was first applied (each was accepted or was a   *)
(* pure duplicate).                                                        *)
(***************************************************************************)
C6_ReplayIdempotent ==
    ReplayDone /\ replay.clean => SameStream(replay.once, replay.twice)

\* a whole schedule of three calls, one of them ignored as a duplicate, has
\* been replayed
C6_Witness ==
    /\ ReplayDone
    /\ replay.clean
    /\ replay.cut = 3
    /\ Len(replay.once.data) = 2
    /\ replay.once.seqnum = 3

\* the positions at which a view lists id
Listed(src, id) == {i \in 1..Len(src) : src[i][1] = id}

(***************************************************************************)
(* C4 as stated: in every state a concurrent task can observe, the view    *)
(* lists exactly the shells that exist with closed = false, each once.  A  *)
(* task observes shell id when no caller holds id's map guard.             *)
(***************************************************************************)
C4_ViewMatchesOpenShells ==
    \A id \in ShellIds :
        guard[id] = "none" =>
            /\ Cardinality(Listed(source, id)) <= 1
            /\ Listed(source, id) # {} <=> IsOpen(id)

(***************************************************************************)
(* C5 as stated: once a close_shell(id) call has returned, no step changes *)
(* shell id's record (seqnum, data, closed; the record stays in the map)   *)
(* and no value published to the view from then on lists id.               *)
(***************************************************************************)
C5_ClosedShellFinality ==
    [][\A id \in closed_ret :
          /\ id \in DOMAIN shells'
          /\ shells'[id] = shells[id]
          /\ shells[id].closed
          /\ source' # source => Listed(source', id) = {}]_vars

(***************************************************************************)
(* C8: the send_modify of move_shell(id, size) on an open shell keeps the  *)
(* other entries of the view in their order with their sizes, removes id's *)
(* entry and puts (id, s) last, s being the supplied size or, for None,    *)
(* id's previous size; the length of the view does not change.             *)
(***************************************************************************)
C8_MoveShellView ==
    [][\A t \in Tasks :
          MoveShellSend(t) =>
            LET id == task[t].id
                old == source[CHOOSE i \in Listed(source, id) : TRUE][2]
            IN /\ Cardinality(Listed(source, id)) = 1
               /\ Len(source') = Len(source)
               /\ SelectSeq(source', LAMBDA e : e[1] # id)
                    = SelectSeq(source, LAMBDA e : e[1] # id)
               /\ source'[Len(source')] =
                    <<id, IF task[t].winsize = <<>> THEN old ELSE task[t].winsize[1]>>]_vars

\* shells 1, 2, 3 were added, 1 was moved without a size and 2 with one
C8_Witness ==
    source = <<<<3, DefaultWinsize>>, <<1, DefaultWinsize>>, <<2, OtherWinsize>>>>

(***************************************************************************)
(* C7 as stated: the values next_id returns are strictly increasing in     *)
(* call order, none is returned twice and none is 0.                       *)
(***************************************************************************)
C7_IdsUnique ==
    /\ \A i \in 1..Len(issued) : issued[i] # U32Zero
    /\ \A i, j \in 1..Len(issued) : i < j => U32Less(issued[i], issued[j])

(***************************************************************************)
(* C9 as stated: once a gateway has handled an inbound frame, updated is   *)
(* not earlier than the instant at which the frame was received.           *)
(***************************************************************************)
C9_FramesRefreshUpdated ==
    \A g \in Gateways :
        gw[g].pc = "select" /\ gw[g].recv_at # <<>> => updated >= gw[g].recv_at[1]

(***************************************************************************)
(* C10 as stated: a gateway that is running when shutdown has fired,       *)
(* whatever it is doing, eventually sends Terminated as its last frame and *)
(* closes; no Shells or Chunks frame follows a Terminated frame.  A client *)
(* that hangs up by itself in the meantime is not held against the         *)
(* gateway.                                                                *)
(***************************************************************************)
C10_OrderlyTermination ==
    \A g \in Gateways :
        /\ [](\A i \in 1..Len(out[g]) : out[g][i] = <<"Terminated">> => i = Len(out[g]))
        /\ [](shutdown /\ gw[g].pc \in {"select", "send_update"}
                => <>(\/ gw[g].client = "closed"
                      \/ /\ gw[g].pc = "done"
                         /\ out[g] # <<>>
                         /\ out[g][Len(out[g])] = <<"Terminated">>))

(***************************************************************************)
(* C17 as stated: a chunk stream that ends because its shell is closed has *)
(* received every fragment of the shell: when the stream finds the shell   *)
(* closed and returns, its cursor is not behind data.len().                *)
(***************************************************************************)
C17_LateReadersDrain ==
    [][\A s \in Streams :
          StreamGone(s) /\ stream[s].id \in DOMAIN shells =>
             stream[s].chunknum >= Len(shells[stream[s].id].data)]_vars

(***************************************************************************)
(* C18: every chunk stream of shell 1 that is polled again and again ends  *)
(* once shell 1 is closed, wherever the stream was when closed was set.    *)
(***************************************************************************)
C18_CloseWakesSubscribers ==
    \A s \in Streams :
        (/\ stream[s].pc \notin {"unused", "done"}
         /\ stream[s].id \in DOMAIN shells
         /\ shells[stream[s].id].closed) ~> (stream[s].pc = "done")

\* a stream that had yielded a batch has ended on the closed shell, without
\* a shutdown
C18_Witness ==
    /\ stream["s1"].pc = "done"
    /\ yielded["s1"] # <<>>
    /\ 1 \in DOMAIN shells
    /\ shells[1].closed
    /\ ~shutdown

\* stream s is parked in its select
Parked(s) == stream[s].pc = "select"

\* fragment number k of the shell of stream s exists and is not before the
\* index the stream was opened with
Owed(s, k) ==
    /\ stream[s].pc \notin {"unused", "done"}
    /\ stream[s].id \in DOMAIN shells
    /\ stream[s].start < k
    /\ k <= Len(shells[stream[s].id].data)

(***************************************************************************)
(* C19: a chunk stream of an open shell is never parked with its cursor    *)
(* below data.len() and no wake pending; and every fragment appended at an *)
(* index at or after the stream's start is eventually yielded by a stream  *)
(* that is polled again and again, unless the shell is closed or the       *)
(* session is shut down.                                                   *)
(***************************************************************************)
C19_NoLostWakeup ==
    /\ [](\A s \in Streams :
            Parked(s) /\ IsOpen(stream[s].id)
              /\ stream[s].chunknum < Len(shells[stream[s].id].data)
            => stream[s].notified = "fired")
    /\ \A s \in Streams : \A k \in 1..MaxBytes :
          Owed(s, k) ~> (\/ stream[s].chunknum >= k
                         \/ ~IsOpen(stream[s].id)
                         \/ shutdown)

\* a parked stream has a wake pending for a fragment appended behind it
C19_Witness ==
    /\ Parked("s1")
    /\ IsOpen(1)
    /\ stream["s1"].chunknum < Len(shells[1].data)
    /\ stream["s1"].notified = "fired"
    /\ ~shutdown

(***************************************************************************)
(* C15: add_shell(id) fails iff id is in the map; close_shell(id) fails    *)
(* iff id is absent and succeeds at once when id is closed; move_shell and *)
(* add_data fail when id is absent or closed; and none of these failing or *)
(* no-op calls changes the map, a shell record or the view.                *)
(***************************************************************************)
C15_ErrorsLeaveState ==
    [][\A t \in Tasks, id \in ShellIds :
          LET present == id \in DOMAIN shells
              open == present /\ ~shells[id].closed
              same == shells' = shells /\ source' = source
          IN
          /\ AddShellExists(t, id) \/ AddShellInsert(t, id) =>
                /\ present <=> ret'[t] = <<"add_shell", "Err">>
                /\ present => same
          /\ CloseShellMissing(t, id) \/ CloseShellAlready(t, id) \/ CloseShellMark(t, id) =>
                /\ ~present <=> ret'[t] = <<"close_shell", "Err">>
                /\ present /\ ~open => ret'[t] = <<"close_shell", "Ok">>
                /\ ~open => same
          /\ MoveShellFail(t, id) \/ (\E w \in WinsizeArgs : MoveShellLock(t, id, w)) =>
                (~open => ret'[t] = <<"move_shell", "Err">> /\ same)
          /\ AddDataFail(t, id) \/ (\E c \in ViewCalls : AddData(t, id, c[2], c[1])) =>
                (~open => ret'[t] = <<"add_data", "Err">> /\ same)]_vars

\* on the closed shell 1, which holds a fragment, one caller's move_shell
\* and the other's add_data have failed while shell 2 is listed
C15_Witness ==
    /\ 1 \in DOMAIN shells
    /\ shells[1].closed
    /\ shells[1].seqnum = 1
    /\ ret["t1"] = <<"move_shell", "Err">>
    /\ ret["t2"] = <<"add_data", "Err">>
    /\ source = <<<<2, DefaultWinsize>>>>

(***************************************************************************)
(* C20 as stated: once a gateway has ended, every forwarding task it       *)
(* spawned eventually ends, whatever its shell does.                       *)
(***************************************************************************)
C20_SubtasksCancelled ==
    \A g \in Gateways : \A s \in Streams :
        (stream[s].owner = g /\ gw[g].pc = "done") ~> (stream[s].pc = "done")

(***************************************************************************)
(* C11 as stated: once shutdown has fired no chunk stream starts another   *)
(* pass of its loop (a stream that is parked, suspended at a yield or      *)
(* opened later yields nothing more), and every chunk stream, the          *)
(* forwarding tasks of the gateways included, eventually ends.             *)
(***************************************************************************)
C11_ShutdownLiveness ==
    /\ [][\A s \in Streams :
            shutdown /\ stream[s].pc # "read" => stream'[s].pc # "read"]_vars
    /\ \A s \in Streams :
          (shutdown /\ stream[s].pc \notin {"unused", "done"}) ~> (stream[s].pc = "done")

RECURSIVE ChunkFrames(_, _)
\* the batches of the Chunks frames for shell id among frames, in order
ChunkFrames(frames, id) ==
    IF frames = <<>> THEN <<>>
    ELSE LET f == frames[Len(frames)]
             rest == ChunkFrames(SubSeq(frames, 1, Len(frames) - 1), id)
         IN IF f[1] = "Chunks" /\ f[2] = id THEN Append(rest, f[3]) ELSE rest

\* the forwarding tasks gateway g has spawned for shell id
TasksOf(g, id) == {s \in Streams : stream[s].owner = g /\ stream[s].id = id}

(***************************************************************************)
(* C13: a gateway has at most one forwarding task per shell id, opened at  *)
(* the start_chunk of the first Subscribe frame, and the Chunks frames it  *)
(* has sent for the shell are, concatenated, the fragments                 *)
(* data[start_chunk ..] in order up to some index: no fragment is sent in  *)
(* two frames.                                                             *)
(***************************************************************************)
C13_SubscribeOnce ==
    \A g \in Gateways : \A id \in ShellIds :
        /\ Cardinality(TasksOf(g, id)) <= 1
        /\ (TasksOf(g, id) # {}) = (id \in gw[g].subscribed)
        /\ LET sent == Flatten(ChunkFrames(out[g], id)) IN
           IF TasksOf(g, id) = {} \/ id \notin DOMAIN shells
           THEN sent = <<>>
           ELSE LET s == CHOOSE r \in TasksOf(g, id) : TRUE IN
                /\ sent = <<>> \/ stream[s].start + Len(sent) <= Len(shells[id].data)
                /\ sent = SubSeq(shells[id].data, stream[s].start + 1,
                                 stream[s].start + Len(sent))

\* after Subscribe(1, 0) and a second Subscribe for shell 1 the client has
\* received both fragments of the shell, in two Chunks frames
C13_Witness ==
    /\ gw["g1"].nrecv = 2
    /\ gw["g1"].subscribed = {1}
    /\ Len(ChunkFrames(out["g1"], 1)) = 2
    /\ Flatten(ChunkFrames(out["g1"], 1)) = shells[1].data
    /\ Len(shells[1].data) = 2

\* the connection a queued message comes from, in BackpressureSpec
Producer(m) ==
    IF m[1] = "CreateShell" THEN "g1"
    ELSE IF m[2] = 1 THEN "g1"
    ELSE IF m[2] = 2 THEN "g2"
    ELSE "none"

\* the messages of connection g among q, in order
From(g, q) == SelectSeq(q, LAMBDA m : Producer(m) = g)

(***************************************************************************)
(* C14: the update channel never holds more than 256 messages; a gateway   *)
(* waits in update_tx.send exactly while it holds a message it could not   *)
(* enqueue; and for each connection the messages already taken by the      *)
(* consumer, then those in the channel, then the one the gateway is        *)
(* waiting to enqueue, are the messages its frames called for, in frame    *)
(* order, each once.                                                       *)
(***************************************************************************)
C14_Backpressure ==
    /\ Len(updates) <= UpdateCap
    /\ \A g \in Gateways :
        /\ (gw[g].pc = "send_update") = (gw[g].pending # <<>>)
        /\ gw[g].pending # <<>> => Len(updates) + Len(drained) >= UpdateCap
        /\ From(g, drained) \o From(g, updates) \o gw[g].pending = gw[g].asked

\* both connections have waited on the full channel; g1's two messages are
\* in the channel and g2's second message still waits
C14_Witness ==
    /\ Len(updates) = UpdateCap
    /\ Len(gw["g1"].asked) = 2
    /\ From("g1", updates) = gw["g1"].asked
    /\ gw["g1"].pending = <<>>
    /\ gw["g2"].pc = "send_update"
    /\ drained # <<>>

(***************************************************************************)
(* C12: the handler of a WebSocket opened for an unregistered name sends   *)
(* the one close frame (4404, "could not find the requested session") and  *)
(* nothing else, ever, and changes nothing of the session.                 *)
(***************************************************************************)
C12_MissingSession ==
    /\ [][\A g \in Gateways :
            GetSessionWs(g, "missing") =>
               /\ out'[g] = <<CloseFrame>>
               /\ UNCHANGED <<shells, guard, source, shutdown, updated, stream, counter,
                              issued, updates, chan, unseen>>]_vars
    /\ [](\A g \in Gateways :
            gw[g].pc = "refused" =>
               /\ out[g] = <<<<"Close", 4404, "could not find the requested session">>>>
               /\ g \notin unseen
               /\ gw[g].nrecv = 0)

\* g2 asked for the unknown name and was refused; g1 is connected and has
\* received the view that lists shell 1
C12_Witness ==
    /\ gw["g2"].pc = "refused"
    /\ out["g2"] = <<CloseFrame>>
    /\ gw["g1"].pc = "select"
    /\ out["g1"] # <<>>
    /\ out["g1"][Len(out["g1"])] = <<"Shells", <<<<1, DefaultWinsize>>>>>>
    /\ Len(updates) = 1

RECURSIVE ShellsFrames(_)
\* the views of the Shells frames among frames, in order
ShellsFrames(frames) ==
    IF frames = <<>> THEN <<>>
    ELSE LET f == frames[Len(frames)]
             rest == ShellsFrames(SubSeq(frames, 1, Len(frames) - 1))
         IN IF f[1] = "Shells" THEN Append(rest, f[2]) ELSE rest

\* the last Shells frame sent to the client of g carries the current view
UpToDate(g) ==
    /\ ShellsFrames(out[g]) # <<>>
    /\ ShellsFrames(out[g])[Len(ShellsFrames(out[g]))] = source

(***************************************************************************)
(* C16 as stated: a running gateway whose watch receiver has seen the      *)
(* current value has sent it as its last Shells frame; and a running       *)
(* gateway with an unseen value eventually sends the current view, unless  *)
(* the client hangs up or the session shuts down.                          *)
(***************************************************************************)
C16_ShellListConvergence ==
    /\ [](\A g \in Gateways :
            gw[g].pc \in {"select", "send_update"} /\ gw[g].client = "open"
              /\ g \notin unseen => UpToDate(g))
    /\ \A g \in Gateways :
          (gw[g].pc \in {"select", "send_update"} /\ g \in unseen)
             ~> (\/ g \notin unseen /\ UpToDate(g)
                 \/ gw[g].client = "closed"
                 \/ shutdown)

====
